---- MODULE Spec2Model ----
(***************************************************************************)
(* Model of streamlit_app.py: the positional spreadsheet parser load_data  *)
(* (cached by st.cache_data) and the script around it, which either shows  *)
(* an error and stops or renders the dashboard.  One behaviour is a        *)
(* sequence of script runs (the first run and the reruns Streamlit makes   *)
(* on every UI interaction) over one data file.                            *)
(*                                                                         *)
(* Text is a TLA+ string.  A cell of a DataFrame is NaN (<<>>) or a        *)
(* one-element tuple: <<text>> for a string cell and <<n>> for a float,    *)
(* held in hundredths (12.5 is <<1250>>).                                  *)
(***************************************************************************)
EXTENDS Integers, Sequences, FiniteSets, TLC

\* ------------------------------------------------------------------ bounds

\* Rows of the detail region whose Department and Service cells are drawn
\* freely in the detail family of input files.
MaxDetailRows == 2
\* Script reruns after the first run.
MaxReruns == 1

\* ------------------------------------------------- coordinates of the code

SummaryRowLo == 24
SummaryRowHi == 31
SummaryCols == <<0, 1, 3>>
EmRowLo == 2
EmRowHi == 22
EmColLo == 0
EmColHi == 5
DetailRowLo == 2
DetailRowHi == 73
DetailColLo == 6
DetailColHi == 10

EmNames == <<"Category", "Pre_RVU", "Pre_Pct", "Post_RVU", "Post_Pct">>
DetailNames == <<"Department", "Service", "Avg_Adj_Total_RVU", "Count_Pct">>

\* ------------------------------------------------------------------- text

Min(a, b) == IF a < b THEN a ELSE b
Max(a, b) == IF a > b THEN a ELSE b

Char(s, i) == SubSeq(s, i, i)

UpperAlpha == "ABCDEFGHIJKLMNOPQRSTUVWXYZ"
LowerAlpha == "abcdefghijklmnopqrstuvwxyz"
Digits == "0123456789"

LowerChar(c) ==
    IF \E i \in 1..Len(UpperAlpha) : Char(UpperAlpha, i) = c
    THEN Char(LowerAlpha, CHOOSE i \in 1..Len(UpperAlpha) : Char(UpperAlpha, i) = c)
    ELSE c

RECURSIVE LowerStr(_)
LowerStr(s) ==
    IF Len(s) = 0 THEN ""
    ELSE LowerChar(Char(s, 1)) \o LowerStr(SubSeq(s, 2, Len(s)))

\* re.search of a pattern without metacharacters: a substring test.
StrContains(s, pat) ==
    \E i \in 1..(Len(s) - Len(pat) + 1) : SubSeq(s, i, i + Len(pat) - 1) = pat

\* Series.str.contains(pat, case=False)
StrContainsNoCase(s, pat) == StrContains(LowerStr(s), LowerStr(pat))

\* ------------------------------------------------------------------ cells

NaN == << >>
Txt(s) == <<s>>
Num(n) == <<n>>

\* Series.notna
NotNa(c) == c # NaN

\* astype(str) of an object cell: a missing value prints as "nan".
AsStr(c) == IF c = NaN THEN "nan" ELSE c[1]

\* pandas' default na_values, as far as the modelled files use them.
NaValues == {"", "N/A", "NA", "NaN", "nan", "null", "NULL", "n/a", "None"}

\* pd.read_csv(header=None) on one field.
ReadCell(t) == IF t \in NaValues THEN NaN ELSE Txt(t)

IsDigit(c) == \E i \in 1..Len(Digits) : Char(Digits, i) = c
DigitVal(c) == (CHOOSE i \in 1..Len(Digits) : Char(Digits, i) = c) - 1

RECURSIVE DigitsVal(_, _)
DigitsVal(s, acc) ==
    IF Len(s) = 0 THEN acc
    ELSE DigitsVal(SubSeq(s, 2, Len(s)), 10 * acc + DigitVal(Char(s, 1)))

Unsigned(s) ==
    IF Len(s) > 0 /\ Char(s, 1) \in {"-", "+"} THEN SubSeq(s, 2, Len(s)) ELSE s

DotAt(s) ==
    IF \E i \in 1..Len(s) : Char(s, i) = "."
    THEN CHOOSE i \in 1..Len(s) : Char(s, i) = "." /\ \A j \in 1..(i - 1) : Char(s, j) # "."
    ELSE Len(s) + 1

IntPart(s) == SubSeq(s, 1, DotAt(s) - 1)
FracPart(s) == SubSeq(s, DotAt(s) + 1, Len(s))

\* The decimal literals the float parser accepts: [sign] digits [. digits],
\* with a digit on at least one side of the point.
IsNumberText(s) ==
    LET u == Unsigned(s) IN
    /\ \A i \in 1..Len(IntPart(u)) : IsDigit(Char(IntPart(u), i))
    /\ \A i \in 1..Len(FracPart(u)) : IsDigit(Char(FracPart(u), i))
    /\ Len(IntPart(u)) + Len(FracPart(u)) > 0

\* The value in hundredths (the modelled files hold at most two decimals).
NumberValue(s) ==
    LET u == Unsigned(s)
        f == SubSeq(FracPart(u) \o "00", 1, 2)
        v == 100 * DigitsVal(IntPart(u), 0) + DigitsVal(f, 0)
    IN IF Len(s) > 0 /\ Char(s, 1) = "-" THEN 0 - v ELSE v

ToNumericZero(c) ==
    IF c = NaN THEN Num(0)
    ELSE IF IsNumberText(c[1]) THEN Num(NumberValue(c[1])) ELSE Num(0)

\* pd.to_numeric(errors='coerce') on one cell.
ToNumeric(c) ==
    IF c = NaN THEN NaN
    ELSE IF IsNumberText(c[1]) THEN Num(NumberValue(c[1])) ELSE NaN

\* ------------------------------------------------------------ DataFrames

\* A DataFrame is a sequence of rows; raw_df's rows are tuples of cells, and
\* rows and columns are addressed from zero as iloc does.
NRows(df) == Len(df)
NCols(df) == Len(df[1])
Cell(df, r, c) ==
    IF r < Len(df) /\ c < Len(df[r + 1]) THEN df[r + 1][c + 1] ELSE NaN

\* pd.read_csv(DATA_FILENAME, header=None) on a readable file.
ReadCsv(rows) ==
    [r \in 1..Len(rows) |-> [c \in 1..Len(rows[r]) |-> ReadCell(rows[r][c])]]

\* The labels iloc[lo:hi] keeps: a slice is cut to the frame, never an error.
IlocRows(df, lo, hi) == Max(0, Min(hi, NRows(df)) - lo)
\* The columns iloc[:, lo:hi] keeps.
IlocWidth(df, lo, hi) == Max(0, Min(hi, NCols(df)) - lo)

\* iloc[:, [list]]: a position outside the frame is an IndexError.
IlocListRaises(df, cols) == \E i \in 1..Len(cols) : cols[i] >= NCols(df)

SetColumnsNeverRaises(width, names) == FALSE

\* df.columns = names: a length mismatch is a ValueError.
SetColumnsRaises(width, names) == width # Len(names)

\* ------------------------------------------------- 1. Department Summary

DeptSlice(raw) ==
    [k \in 1..IlocRows(raw, SummaryRowLo, SummaryRowHi) |->
        LET r == SummaryRowLo + k - 1 IN
        [idx |-> r,
         Department |-> Cell(raw, r, SummaryCols[1]),
         Pre_RC_RVU |-> Cell(raw, r, SummaryCols[2]),
         Post_RC_RVU |-> Cell(raw, r, SummaryCols[3])]]

DeptNotTotalNoCase(row) == ~StrContainsNoCase(AsStr(row.Department), "Total")

\* dept_summary_df['Department'] != 'Grand Total'
DeptNotGrandTotal(row) == row.Department # Txt("Grand Total")

DeptFilter(df) ==
    SelectSeq(SelectSeq(df, LAMBDA row : NotNa(row.Department)), DeptNotGrandTotal)

DeptNumeric(df) ==
    [k \in 1..Len(df) |->
        [df[k] EXCEPT !.Pre_RC_RVU = ToNumeric(@), !.Post_RC_RVU = ToNumeric(@)]]

DeptSummaryOf(raw) == DeptNumeric(DeptFilter(DeptSlice(raw)))

\* ------------------------------------------------- 2. E&M Level Breakdown

EmSlice(raw) ==
    [k \in 1..IlocRows(raw, EmRowLo, EmRowHi) |->
        LET r == EmRowLo + k - 1 IN
        [idx |-> r,
         Category |-> Cell(raw, r, EmColLo),
         Pre_RVU |-> Cell(raw, r, EmColLo + 1),
         Pre_Pct |-> Cell(raw, r, EmColLo + 2),
         Post_RVU |-> Cell(raw, r, EmColLo + 3),
         Post_Pct |-> Cell(raw, r, EmColLo + 4)]]

EmKeepAll(row) == TRUE

\* em_df['Category'].notna()
EmKeep(row) == NotNa(row.Category)

EmFilter(df) == SelectSeq(df, EmKeep)

EmNumeric(df) ==
    [k \in 1..Len(df) |->
        [df[k] EXCEPT !.Pre_RVU = ToNumeric(@), !.Post_RVU = ToNumeric(@)]]

EmBreakdownOf(raw) == EmNumeric(EmFilter(EmSlice(raw)))

\* ------------------------------------------------- 3. Detailed Breakdown

DetailSlice(raw) ==
    [k \in 1..IlocRows(raw, DetailRowLo, DetailRowHi) |->
        LET r == DetailRowLo + k - 1 IN
        [idx |-> r,
         Department |-> Cell(raw, r, DetailColLo),
         Service |-> Cell(raw, r, DetailColLo + 1),
         Avg_Adj_Total_RVU |-> Cell(raw, r, DetailColLo + 2),
         Count_Pct |-> Cell(raw, r, DetailColLo + 3)]]

FfillLimitOne(df) ==
    [k \in 1..Len(df) |->
        [df[k] EXCEPT !.Department =
            IF NotNa(@) \/ k = 1 THEN @ ELSE df[k - 1].Department]]

\* detail_df['Department'].ffill(): one pass carrying the last value seen.
Ffill(df) ==
    LET last[k \in 0..Len(df)] ==
            IF k = 0 THEN NaN
            ELSE IF NotNa(df[k].Department) THEN df[k].Department ELSE last[k - 1]
    IN [k \in 1..Len(df) |-> [df[k] EXCEPT !.Department = last[k]]]

ContainsTotalCased(c) == StrContains(AsStr(c), "Total")

\* .astype(str).str.contains('Total', case=False)
ContainsTotal(c) == StrContainsNoCase(AsStr(c), "Total")

DetailFilter(df) ==
    SelectSeq(SelectSeq(SelectSeq(df,
        LAMBDA row : NotNa(row.Service)),
        LAMBDA row : ~ContainsTotal(row.Service)),
        LAMBDA row : ~ContainsTotal(row.Department))

DetailNumeric(df) ==
    [k \in 1..Len(df) |-> [df[k] EXCEPT !.Avg_Adj_Total_RVU = ToNumeric(@)]]

\* ------------------------------------------------------------ input files

\* A data file is a non-empty rectangle of text fields ("" is an empty
\* field).  The files below follow the layout the coordinates expect: E&M
\* categories in rows 2..21, the department band in rows 24..30 closed by
\* "Grand Total", and the detail block in columns 6..9 with the Department
\* written on the first row of each group of three.
Two(n) == Char(Digits, (n \div 10) + 1) \o Char(Digits, (n % 10) + 1)

BaseCell(r, c) ==
    CASE c = 0 ->
            IF r \in EmRowLo..(EmRowHi - 1)
            THEN (IF r % 5 = 1 THEN "" ELSE "Level " \o Two(r))
            ELSE IF r = SummaryRowLo + 4 THEN "Grand Totals"
            ELSE IF r = SummaryRowLo + 5 THEN "grand total"
            ELSE IF r = SummaryRowHi - 1 THEN "Grand Total"
            ELSE IF r \in SummaryRowLo..(SummaryRowHi - 1) THEN "Dept " \o Two(r)
            ELSE IF r < EmRowLo THEN "Header"
            ELSE ""
      [] c = 1 ->
            CASE r % 4 = 0 -> Two(r) \o ".5"
              [] r % 4 = 1 -> Two(r)
              [] r % 4 = 2 -> "--"
              [] OTHER -> "N/A"
      [] c = 2 -> "10%"
      [] c = 3 -> IF r % 3 = 0 THEN "" ELSE Two(r) \o ".25"
      [] c = 4 -> "20%"
      [] c = 6 ->
            IF r < DetailRowLo \/ (r - DetailRowLo) % 3 # 0 THEN ""
            ELSE IF r = DetailRowHi - 2 THEN "Dept Total"
            ELSE "Dept " \o Two(r)
      [] c = 7 ->
            CASE r < DetailRowLo -> "Header"
              [] r >= DetailRowLo /\ (r - DetailRowLo) % 9 = 3 -> ""
              [] r >= DetailRowLo /\ (r - DetailRowLo) % 9 = 8 -> "Subtotal"
              [] OTHER -> "Svc " \o Two(r)
      [] c = 8 -> IF r % 4 = 1 THEN "N/A" ELSE Two(r) \o ".75"
      [] c = 9 -> "5%"
      [] OTHER -> ""

\* The file of the given shape whose fields are BaseCell but for `over`, a
\* function from some <<row, column>> places to their text.
MkFile(nrows, ncols, over) ==
    [r \in 1..nrows |-> [c \in 1..ncols |->
        IF <<r - 1, c - 1>> \in DOMAIN over THEN over[<<r - 1, c - 1>>]
        ELSE BaseCell(r - 1, c - 1)]]

ShapeRows == {1, 2, 3, 22, 24, 25, 31, 73, 74}
ShapeCols == {1, 3, 4, 5, 6, 9, 10, 11}
ShapeFiles == {MkFile(n, m, << >>) : n \in ShapeRows, m \in ShapeCols}

DeptTexts == {"", "ED", "ICU", "ED TOTAL"}
ServiceTexts == {"", "Visit", "Subtotal"}
DetailFreeRows == DetailRowLo..(DetailRowLo + MaxDetailRows - 1)
DetailFiles ==
    {MkFile(DetailRowLo + MaxDetailRows, DetailColHi,
            [p \in DetailFreeRows \X {DetailColLo, DetailColLo + 1} |->
                IF p[2] = DetailColLo THEN d[p[1]] ELSE s[p[1]]]) :
        d \in [DetailFreeRows -> DeptTexts], s \in [DetailFreeRows -> ServiceTexts]}

\* The first two and the last two rows of the department band are each
\* empty, "Grand Total" or their own text (a near miss of the aggregate label
\* in rows 28 and 29).
SummaryFreeRows ==
    {SummaryRowLo, SummaryRowLo + 1, SummaryRowHi - 2, SummaryRowHi - 1}
SummaryFiles ==
    {MkFile(SummaryRowHi, DetailColHi,
            [p \in SummaryFreeRows \X {0} |->
                CASE opt[p[1]] = 0 -> ""
                  [] opt[p[1]] = 1 -> "Grand Total"
                  [] OTHER -> BaseCell(p[1], 0)]) :
        opt \in [SummaryFreeRows -> 0..2]}

NumTexts == {"N/A", "12.5", "abc"}
NumPlaces ==
    {<<SummaryRowLo, 1>>, <<SummaryRowLo, 3>>, <<EmRowLo, 1>>, <<EmRowLo, 3>>,
     <<DetailRowLo, DetailColLo + 2>>}
NumericFiles ==
    {MkFile(SummaryRowHi, DetailColHi, over) : over \in [NumPlaces -> NumTexts]}

InputFiles == ShapeFiles \cup DetailFiles \cup SummaryFiles \cup NumericFiles

\* ------------------------------------------------------------------ state

VARIABLES
    file,             \* the fields of data/revenue1.csv
    file_ok,          \* whether the file is there and readable
    cache,            \* st.cache_data's entry for load_data()
    pc,               \* where the script run is
    raw_df,           \* load_data's locals (<< >> while unset)
    dept_summary_df,
    em_df,
    detail_df,
    tables,           \* the script's dept_summary, em_breakdown, detail_data
    exc,              \* the exception load_data raised in this run ("" if none)
    rendered,         \* the elements this run has put on the page, in order
    totals,           \* total_pre and total_post of this run
    reads,            \* calls of pd.read_csv so far
    runs              \* reruns so far

vars ==
    <<file, file_ok, cache, pc, raw_df, dept_summary_df, em_df, detail_df,
      tables, exc, rendered, totals, reads, runs>>

locals == <<raw_df, dept_summary_df, em_df, detail_df>>

NoTables == [set |-> FALSE, dept |-> << >>, em |-> << >>, detail |-> << >>]
NoTotals == [pre |-> 0, post |-> 0]

Init ==
    /\ file \in InputFiles
    /\ file_ok \in BOOLEAN
    /\ cache = NoTables
    /\ pc = "start"
    /\ raw_df = << >>
    /\ dept_summary_df = << >>
    /\ em_df = << >>
    /\ detail_df = << >>
    /\ tables = NoTables
    /\ exc = ""
    /\ rendered = << >>
    /\ totals = NoTotals
    /\ reads = 0
    /\ runs = 0

\* ------------------------------------------------------------- load_data

CacheNever == FALSE

\* @st.cache_data on a function without arguments: one entry, kept for every
\* later call once a call has returned.
CacheHit == cache.set

\* load_data() with the entry present: the held result is returned and the
\* body is not run.
LoadCached ==
    /\ pc = "start"
    /\ CacheHit
    /\ tables' = cache
    /\ pc' = "metrics"
    /\ UNCHANGED <<file, file_ok, cache, locals, exc, rendered, totals, reads, runs>>

\* load_data() without an entry: the body runs.
LoadMiss ==
    /\ pc = "start"
    /\ ~CacheHit
    /\ pc' = "read"
    /\ UNCHANGED <<file, file_ok, cache, locals, tables, exc, rendered, totals, reads, runs>>

Raise(e) ==
    /\ exc' = e
    /\ pc' = "except"
    /\ raw_df' = << >>
    /\ dept_summary_df' = << >>
    /\ em_df' = << >>
    /\ detail_df' = << >>

\* raw_df = pd.read_csv(DATA_FILENAME, header=None)
ReadStep ==
    /\ pc = "read"
    /\ reads' = reads + 1
    /\ IF file_ok
       THEN /\ raw_df' = ReadCsv(file)
            /\ pc' = "dept"
            /\ UNCHANGED <<dept_summary_df, em_df, detail_df, exc>>
       ELSE Raise("FileNotFoundError")
    /\ UNCHANGED <<file, file_ok, cache, tables, rendered, totals, runs>>

\* dept_summary_df: iloc[24:31, [0, 1, 3]], names, filters, to_numeric.
DeptStep ==
    /\ pc = "dept"
    /\ IF IlocListRaises(raw_df, SummaryCols)
       THEN Raise("IndexError")
       ELSE /\ dept_summary_df' = DeptSummaryOf(raw_df)
            /\ pc' = "em"
            /\ UNCHANGED <<raw_df, em_df, detail_df, exc>>
    /\ UNCHANGED <<file, file_ok, cache, tables, rendered, totals, reads, runs>>

\* em_df: iloc[2:22, 0:5], names, filter, to_numeric.
EmStep ==
    /\ pc = "em"
    /\ IF SetColumnsRaises(IlocWidth(raw_df, EmColLo, EmColHi), EmNames)
       THEN Raise("ValueError")
       ELSE /\ em_df' = EmBreakdownOf(raw_df)
            /\ pc' = "slice"
            /\ UNCHANGED <<raw_df, dept_summary_df, detail_df, exc>>
    /\ UNCHANGED <<file, file_ok, cache, tables, rendered, totals, reads, runs>>

\* detail_df = raw_df.iloc[2:73, 6:10].copy() and its column names.
SliceStep ==
    /\ pc = "slice"
    /\ IF SetColumnsRaises(IlocWidth(raw_df, DetailColLo, DetailColHi), DetailNames)
       THEN Raise("ValueError")
       ELSE /\ detail_df' = DetailSlice(raw_df)
            /\ pc' = "ffill"
            /\ UNCHANGED <<raw_df, dept_summary_df, em_df, exc>>
    /\ UNCHANGED <<file, file_ok, cache, tables, rendered, totals, reads, runs>>

\* detail_df['Department'] = detail_df['Department'].ffill()
FfillStep ==
    /\ pc = "ffill"
    /\ detail_df' = Ffill(detail_df)
    /\ pc' = "filter"
    /\ UNCHANGED <<file, file_ok, cache, raw_df, dept_summary_df, em_df, tables,
                   exc, rendered, totals, reads, runs>>

\* The three row filters of detail_df.
FilterStep ==
    /\ pc = "filter"
    /\ detail_df' = DetailFilter(detail_df)
    /\ pc' = "numeric"
    /\ UNCHANGED <<file, file_ok, cache, raw_df, dept_summary_df, em_df, tables,
                   exc, rendered, totals, reads, runs>>

\* to_numeric on Avg_Adj_Total_RVU and the return: the result goes into the
\* cache and to the caller, and the locals are gone.
ReturnStep ==
    /\ pc = "numeric"
    /\ LET result == [set |-> TRUE, dept |-> dept_summary_df, em |-> em_df,
                      detail |-> DetailNumeric(detail_df)]
       IN /\ cache' = result
          /\ tables' = result
    /\ raw_df' = << >>
    /\ dept_summary_df' = << >>
    /\ em_df' = << >>
    /\ detail_df' = << >>
    /\ pc' = "metrics"
    /\ UNCHANGED <<file, file_ok, exc, rendered, totals, reads, runs>>

\* ---------------------------------------------------------------- script

\* except Exception as e: st.error(...)
ShowError ==
    /\ pc = "except"
    /\ rendered' = Append(rendered, "error")
    /\ pc' = "stop"
    /\ UNCHANGED <<file, file_ok, cache, locals, tables, exc, totals, reads, runs>>

StStopFallsThrough == "metrics"

\* st.stop(): the run ends here.
StStop == "stopped"

Stop ==
    /\ pc = "stop"
    /\ pc' = StStop
    /\ UNCHANGED <<file, file_ok, cache, locals, tables, exc, rendered, totals, reads, runs>>

\* Series.sum(): missing values are skipped.
RECURSIVE SumCol(_, _)
SumCol(df, col) ==
    IF Len(df) = 0 THEN 0
    ELSE (IF df[1][col] = NaN THEN 0 ELSE df[1][col][1]) + SumCol(Tail(df), col)

\* The title and the three metrics.
RenderMetrics ==
    /\ pc = "metrics"
    /\ totals' = [pre |-> SumCol(tables.dept, "Pre_RC_RVU"),
                  post |-> SumCol(tables.dept, "Post_RC_RVU")]
    /\ rendered' = rendered \o <<"title", "markdown", "metric", "metric", "metric">>
    /\ pc' = "dept_chart"
    /\ UNCHANGED <<file, file_ok, cache, locals, tables, exc, reads, runs>>

\* Chart 1: the department comparison.
RenderDeptChart ==
    /\ pc = "dept_chart"
    /\ rendered' = rendered \o <<"divider", "subheader", "chart">>
    /\ pc' = "drilldown"
    /\ UNCHANGED <<file, file_ok, cache, locals, tables, exc, totals, reads, runs>>

\* detail_data['Department'].unique().astype(str)
DeptList(detail) == {AsStr(detail[k].Department) : k \in 1..Len(detail)}

\* Chart 2: the selectbox, and the drilldown chart when a department is
\* selected (none is when the list is empty).
RenderDrilldown ==
    /\ pc = "drilldown"
    /\ rendered' = rendered \o <<"divider", "subheader", "selectbox">>
                   \o (IF DeptList(tables.detail) # {} THEN <<"chart">> ELSE << >>)
    /\ pc' = "em_tabs"
    /\ UNCHANGED <<file, file_ok, cache, locals, tables, exc, totals, reads, runs>>

\* Chart 3: the two tabs.
RenderEm ==
    /\ pc = "em_tabs"
    /\ rendered' = rendered \o <<"divider", "subheader", "tabs", "chart", "dataframe">>
    /\ pc' = "done"
    /\ UNCHANGED <<file, file_ok, cache, locals, tables, exc, totals, reads, runs>>

Idle == pc \in {"done", "stopped"}

\* A UI interaction: Streamlit runs the script again from the top; the
\* cache outlives the run, the script's variables and page do not.
Rerun ==
    /\ Idle
    /\ runs < MaxReruns
    /\ runs' = runs + 1
    /\ pc' = "start"
    /\ tables' = NoTables
    /\ exc' = ""
    /\ rendered' = << >>
    /\ totals' = NoTotals
    /\ UNCHANGED <<file, file_ok, cache, locals, reads>>

\* The environment between runs: the file goes away, or comes back.
FileRemoved ==
    /\ Idle
    /\ file_ok
    /\ file_ok' = FALSE
    /\ UNCHANGED <<file, cache, pc, locals, tables, exc, rendered, totals, reads, runs>>

FileRestored ==
    /\ Idle
    /\ ~file_ok
    /\ file_ok' = TRUE
    /\ UNCHANGED <<file, cache, pc, locals, tables, exc, rendered, totals, reads, runs>>

Next ==
    \/ LoadCached
    \/ LoadMiss
    \/ ReadStep
    \/ DeptStep
    \/ EmStep
    \/ SliceStep
    \/ FfillStep
    \/ FilterStep
    \/ ReturnStep
    \/ ShowError
    \/ Stop
    \/ RenderMetrics
    \/ RenderDeptChart
    \/ RenderDrilldown
    \/ RenderEm
    \/ Rerun
    \/ FileRemoved
    \/ FileRestored

Spec == Init /\ [][Next]_vars

\* ------------------------------------------------------------ properties

\* The input grid: what read_csv makes of the file's fields.
FileRows == Len(file)
FileCols == Len(file[1])
G(r, c) ==
    IF r < FileRows /\ c < FileCols THEN ReadCell(file[r + 1][c + 1]) ELSE NaN

Idxs(df) == {df[k].idx : k \in 1..Len(df)}
InOrder(df) == \A k \in 1..(Len(df) - 1) : df[k].idx < df[k + 1].idx

\* "total" in any letter-casing, letter by letter.
AnyCaseTotal(s) ==
    \E i \in 1..(Len(s) - 4) :
        /\ Char(s, i) \in {"t", "T"}
        /\ Char(s, i + 1) \in {"o", "O"}
        /\ Char(s, i + 2) \in {"t", "T"}
        /\ Char(s, i + 3) \in {"a", "A"}
        /\ Char(s, i + 4) \in {"l", "L"}
CellHasTotal(c) == c # NaN /\ AnyCaseTotal(c[1])

\* The detail region of the grid and, for a row of it, the nearest row above
\* it inside the region whose Department cell is not empty.
DetailRegion == {r \in DetailRowLo..(DetailRowHi - 1) : r < FileRows}
PriorDepts(r) == {j \in DetailRowLo..(r - 1) : G(j, DetailColLo) # NaN}
HasPrior(r) == PriorDepts(r) # {}
NearestPrior(r) == CHOOSE j \in PriorDepts(r) : \A i \in PriorDepts(r) : i <= j
OwnDept(r) == G(r, DetailColLo)
OwnService(r) == G(r, DetailColLo + 1)
Inherited(r) ==
    IF OwnDept(r) # NaN THEN OwnDept(r)
    ELSE IF HasPrior(r) THEN OwnDept(NearestPrior(r)) ELSE NaN

\* The rows of each region that pass the key-column filters.
SummaryKept ==
    {r \in SummaryRowLo..(SummaryRowHi - 1) :
        r < FileRows /\ G(r, 0) # NaN /\ G(r, 0) # Txt("Grand Total")}
EmKept == {r \in EmRowLo..(EmRowHi - 1) : r < FileRows /\ G(r, 0) # NaN}
DetailKept ==
    {r \in DetailRegion :
        /\ OwnService(r) # NaN
        /\ ~CellHasTotal(OwnService(r))
        /\ ~CellHasTotal(Inherited(r))}

\* load_data has just handed its tables to the script, from its body or from
\* the cache; nothing changes them for the rest of the run.
Returned == tables.set /\ pc = "metrics"

\* C1: every row of the ServiceDetail table load_data returns has a non-null
\* Department, also when the detail region starts with empty Department
\* cells that have no Department above them.
C1_DetailDepartmentNonNull ==
    Returned =>
        \A k \in 1..Len(tables.detail) : tables.detail[k].Department # NaN

\* C2: no row of the returned ServiceDetail has a Service or a (filled)
\* Department containing "total" in any letter-casing, and a region row with
\* an empty Department cell that inherits a Department containing "total" is
\* not in the table.
C2_NoTotalRows ==
    Returned =>
        /\ \A k \in 1..Len(tables.detail) :
              /\ ~CellHasTotal(tables.detail[k].Service)
              /\ ~CellHasTotal(tables.detail[k].Department)
        /\ \A r \in DetailRegion :
              (OwnDept(r) = NaN /\ HasPrior(r) /\ CellHasTotal(OwnDept(NearestPrior(r))))
                  => r \notin Idxs(tables.detail)

\* A row with a Service of its own and no "total" in it, left out only for
\* the "total" Department it inherits, while another row is kept.
C2_Witness ==
    /\ tables.set
    /\ tables.detail # << >>
    /\ \E r \in DetailRegion :
          /\ OwnDept(r) = NaN
          /\ OwnService(r) # NaN
          /\ ~CellHasTotal(OwnService(r))
          /\ HasPrior(r)
          /\ CellHasTotal(OwnDept(NearestPrior(r)))
          /\ r \notin Idxs(tables.detail)

\* C3: after the forward fill and before the filters, a region row with an
\* empty Department cell has the Department of the nearest row above it with
\* a non-empty one, and a row with a non-empty cell keeps its own; in the
\* returned table too, whether or not the row that supplied it was dropped.
C3_ForwardFill ==
    /\ pc = "filter" =>
          /\ Idxs(detail_df) = DetailRegion
          /\ \A k \in 1..Len(detail_df) :
                LET r == detail_df[k].idx IN
                /\ OwnDept(r) # NaN => detail_df[k].Department = OwnDept(r)
                /\ (OwnDept(r) = NaN /\ HasPrior(r))
                      => detail_df[k].Department = OwnDept(NearestPrior(r))
    /\ Returned =>
          \A k \in 1..Len(tables.detail) :
              LET r == tables.detail[k].idx IN
              (OwnDept(r) = NaN /\ HasPrior(r))
                  => tables.detail[k].Department = OwnDept(NearestPrior(r))

\* A returned row that got its Department from a row the filters dropped,
\* with a different non-empty Department further up.
C3_Witness ==
    /\ tables.set
    /\ \E k \in 1..Len(tables.detail) :
          LET r == tables.detail[k].idx IN
          /\ OwnDept(r) = NaN
          /\ HasPrior(r)
          /\ NearestPrior(r) \notin Idxs(tables.detail)
          /\ tables.detail[k].Department = OwnDept(NearestPrior(r))
          /\ \E j \in PriorDepts(r) : OwnDept(j) # OwnDept(NearestPrior(r))

\* C4: no row of the three returned tables has a null or empty key column:
\* Department of DepartmentSummary, Category of LevelBreakdown, Service of
\* ServiceDetail.
C4_KeyColumnsNonEmpty ==
    Returned =>
        /\ \A k \in 1..Len(tables.dept) : tables.dept[k].Department \notin {NaN, Txt("")}
        /\ \A k \in 1..Len(tables.em) : tables.em[k].Category \notin {NaN, Txt("")}
        /\ \A k \in 1..Len(tables.detail) : tables.detail[k].Service \notin {NaN, Txt("")}

\* Each region has a row with an empty key cell, and each table has rows.
C4_Witness ==
    /\ tables.set
    /\ tables.dept # << >> /\ tables.em # << >> /\ tables.detail # << >>
    /\ \E r \in SummaryRowLo..(SummaryRowHi - 1) : r < FileRows /\ G(r, 0) = NaN
    /\ \E r \in EmRowLo..(EmRowHi - 1) : r < FileRows /\ G(r, 0) = NaN
    /\ \E r \in DetailRegion : OwnService(r) = NaN

\* C5: the returned DepartmentSummary is the rows of grid rows 24..30
\* (columns 0, 1, 3), in source order, whose Department is non-empty and is
\* not "Grand Total"; six department rows and one "Grand Total" row give six
\* rows.
C5_DepartmentSummary ==
    Returned =>
        /\ Idxs(tables.dept) = SummaryKept
        /\ Len(tables.dept) = Cardinality(SummaryKept)
        /\ InOrder(tables.dept)
        /\ \A k \in 1..Len(tables.dept) :
              LET row == tables.dept[k] IN
              /\ row.Department = G(row.idx, 0)
              /\ row.Department # Txt("Grand Total")
        /\ (/\ FileRows >= SummaryRowHi
            /\ Cardinality({r \in SummaryRowLo..(SummaryRowHi - 1) : G(r, 0) = Txt("Grand Total")}) = 1
            /\ \A r \in SummaryRowLo..(SummaryRowHi - 1) : G(r, 0) # NaN)
              => Len(tables.dept) = 6

\* The band of six departments and "Grand Total", loaded and rendered.
C5_Witness ==
    /\ tables.set
    /\ pc = "done"
    /\ FileRows >= SummaryRowHi
    /\ Cardinality({r \in SummaryRowLo..(SummaryRowHi - 1) : G(r, 0) = Txt("Grand Total")}) = 1
    /\ \A r \in SummaryRowLo..(SummaryRowHi - 1) : G(r, 0) # NaN
    /\ Len(tables.dept) = 6

\* Text of a numeric column that is not a number, and the numbers the files
\* hold, with their values in hundredths.
NotANumber(c) == c = NaN \/ c[1] \in {"N/A", "", "abc", "--"}
IsValue(c, out) ==
    /\ out # NaN
    /\ c = Txt("12.5") => out = Num(1250)
    /\ c = Txt("24.5") => out = Num(2450)
    /\ c = Txt("02.75") => out = Num(275)
    /\ c = Txt("25") => out = Num(2500)
Coerced(c, out) == IF NotANumber(c) THEN out = NaN ELSE IsValue(c, out)

\* C6: a cell of a numeric column that is not a number is null in the
\* output; the load does not fail for it, its row is in the output whenever
\* the row passes the key-column filters, and the other cells are as in the
\* grid.
C6_NumericCoercion ==
    /\ FileCols >= DetailColHi => exc \in {"", "FileNotFoundError"}
    /\ Returned =>
          /\ Idxs(tables.dept) = SummaryKept
          /\ Idxs(tables.em) = EmKept
          /\ Idxs(tables.detail) = DetailKept
          /\ \A k \in 1..Len(tables.dept) :
                LET row == tables.dept[k] IN
                /\ Coerced(G(row.idx, 1), row.Pre_RC_RVU)
                /\ Coerced(G(row.idx, 3), row.Post_RC_RVU)
                /\ row.Department = G(row.idx, 0)
          /\ \A k \in 1..Len(tables.em) :
                LET row == tables.em[k] IN
                /\ Coerced(G(row.idx, 1), row.Pre_RVU)
                /\ Coerced(G(row.idx, 3), row.Post_RVU)
                /\ row.Category = G(row.idx, 0)
                /\ row.Pre_Pct = G(row.idx, 2)
                /\ row.Post_Pct = G(row.idx, 4)
          /\ \A k \in 1..Len(tables.detail) :
                LET row == tables.detail[k] IN
                /\ Coerced(G(row.idx, DetailColLo + 2), row.Avg_Adj_Total_RVU)
                /\ row.Service = OwnService(row.idx)
                /\ row.Count_Pct = G(row.idx, DetailColLo + 3)

\* A load in which each table has a row whose numeric cell is text that is
\* not a number, next to a row cell that is one.
C6_Witness ==
    /\ tables.set
    /\ \E k \in 1..Len(tables.dept) :
          /\ G(tables.dept[k].idx, 1) = Txt("abc")
          /\ tables.dept[k].Pre_RC_RVU = NaN
          /\ tables.dept[k].Post_RC_RVU = Num(1250)
    /\ \E k \in 1..Len(tables.em) :
          /\ G(tables.em[k].idx, 3) = Txt("abc")
          /\ tables.em[k].Post_RVU = NaN
    /\ \E k \in 1..Len(tables.detail) :
          /\ G(tables.detail[k].idx, DetailColLo + 2) = Txt("abc")
          /\ tables.detail[k].Avg_Adj_Total_RVU = NaN

ShortGrid == FileRows < DetailRowHi \/ FileCols < DetailColHi

\* C7 as stated: a grid with fewer rows or fewer columns than the coordinates
\* need never makes load_data fail.
C7_ShortGridNeverFails ==
    ShortGrid => exc \in {"", "FileNotFoundError"}

\* C7 as amended: with at least 10 columns a grid of too few rows loads, its
\* tables cut to the rows there are, and the run renders; with fewer than 10
\* columns load_data raises (IndexError below 4 columns, else ValueError),
\* nothing is returned or cached, and the run shows the error and halts.
C7_ShortGrid ==
    /\ FileCols >= DetailColHi =>
          /\ exc \in {"", "FileNotFoundError"}
          /\ tables.set =>
                /\ Len(tables.dept) <= Max(0, Min(SummaryRowHi, FileRows) - SummaryRowLo)
                /\ Len(tables.em) <= Max(0, Min(EmRowHi, FileRows) - EmRowLo)
                /\ Len(tables.detail) <= Max(0, Min(DetailRowHi, FileRows) - DetailRowLo)
    /\ FileCols < DetailColHi =>
          /\ ~tables.set
          /\ ~cache.set
          /\ pc \notin {"metrics", "dept_chart", "drilldown", "em_tabs", "done"}
          /\ exc # "" =>
                exc \in {"FileNotFoundError",
                         IF FileCols <= SummaryCols[3] THEN "IndexError" ELSE "ValueError"}
          /\ pc = "stopped" => rendered = <<"error">>

\* A grid too short for every region, wide enough, loaded into empty tables
\* and rendered to the end.
C7_Witness ==
    /\ FileRows <= EmRowLo
    /\ FileCols >= DetailColHi
    /\ pc = "done"
    /\ tables.set
    /\ tables.dept = << >> /\ tables.em = << >> /\ tables.detail = << >>
    /\ Len(rendered) > 0

\* C8: when load_data fails, the run shows an error message and halts; no
\* metric, chart or table is rendered in that run.
C8_FailedLoadHalts ==
    /\ exc # "" =>
          /\ ~tables.set
          /\ rendered \in {<< >>, <<"error">>}
          /\ pc \in {"except", "stop", "stopped"}
    /\ pc \in {"stop", "stopped"} => (exc # "" /\ rendered = <<"error">>)

\* A run halted after a failed load, with the error on the page.
C8_Witness ==
    /\ pc = "stopped"
    /\ exc = "FileNotFoundError"
    /\ rendered = <<"error">>
    /\ runs = 0

\* C9: once a load has succeeded, no later step of any run reads the file
\* again or changes the held result, and every later call of load_data
\* returns the held result.
C9_CachedLoad ==
    [][cache.set =>
          /\ reads' = reads
          /\ cache' = cache
          /\ pc = "start" => tables' = cache]_vars

\* A rerun served from the cache after the file has gone.
C9_Witness ==
    /\ cache.set
    /\ runs >= 1
    /\ reads = 1
    /\ ~file_ok
    /\ pc = "done"
    /\ tables = cache

====
